---- MODULE Spec2Model ----
(***************************************************************************)
(* Offline submission queue and synchronization engine of the CIRA mobile  *)
(* app: the persisted sync queue (lib/storage.ts), the retry policy and    *)
(* the sync pass (lib/sync.ts), the connectivity probe (lib/network.ts),   *)
(* the coordinating hook (hooks/useOfflineSync.ts) and the report form's   *)
(* submit handler (components/ReportFormModal.tsx).                        *)
(*                                                                         *)
(* JavaScript runs one task at a time: the code between two awaits is one  *)
(* atomic step, and every await (storage getItem/setItem, NetInfo.fetch,   *)
(* createReport, uploadPhoto) is a point where other tasks interleave.     *)
(***************************************************************************)
EXTENDS Integers, Sequences, FiniteSets, TLC

(***************************************************************************)
(* Bounds of the model                                                     *)
(***************************************************************************)
MaxTasks == 2        \* asynchronous tasks in flight (passes, handleSubmit)
MaxItems == 1        \* Spec: queue items ever created (ids 1..MaxItems)
QMaxItems == 2       \* SpecQueue: queue items ever created
MaxTicks == 1        \* clock advances, of one minute each
MaxFaults == 1       \* platform failures (storage, NetInfo) injected
MaxPhotos == 1       \* attachments of a submitted report
NumHooks == 1        \* components that have mounted useOfflineSync
MaxRetryCount == 6   \* SpecRetry: largest retryCount drawn
MaxMinutes == 9      \* SpecRetry: latest clock value drawn, in minutes

(***************************************************************************)
(* Program constants                                                       *)
(***************************************************************************)
MAX_RETRIES == 5
RETRY_DELAYS == <<60000, 120000, 240000, 480000>>
Minute == 60000
StartTime == 60000   \* Date.now() at start (any positive epoch time)

Hooks == 1..NumHooks
PassIds == 1..MaxTasks
FormOwner == 0       \* owner of the pass started by the report form
NoOwner == -1        \* a free pass slot
Absent == -1         \* an optional numeric field that is undefined

(***************************************************************************)
(* SyncQueueItem                                                           *)
(***************************************************************************)
\* content stands for (title, description, type); lat and lng are in units
\* of 1e-5 degree
ReportDatas ==
  { [content |-> "pothole", lat |-> 0, lng |-> 0],
    [content |-> "leak",    lat |-> 0, lng |-> 0] }

\* the forms the user submits: report data and number of photos
Forms ==
  { [reportData |-> d, photos |-> MaxPhotos] :
      d \in { x \in ReportDatas : x.content = "pothole" } }

NewItem(id, reportData, photos, t) ==
  [ id |-> id, reportData |-> reportData, photos |-> photos,
    retryCount |-> 0, createdAt |-> t, lastAttempt |-> Absent, error |-> "" ]

Ids(q) == { q[i].id : i \in 1..Len(q) }

(***************************************************************************)
(* Retry policy (lib/sync.ts)                                              *)
(***************************************************************************)
getRetryDelay(retryCount) ==
  IF retryCount >= Len(RETRY_DELAYS)
    THEN RETRY_DELAYS[Len(RETRY_DELAYS)]
    ELSE RETRY_DELAYS[retryCount + 1]

\* !item.lastAttempt : undefined and 0 are both falsy
Falsy(n) == n = Absent \/ n = 0

\* shouldRetry without its first test, the comparison with MAX_RETRIES
shouldRetryNoMax(item, t) ==
  IF Falsy(item.lastAttempt) THEN TRUE
  ELSE t - item.lastAttempt >= getRetryDelay(item.retryCount)

shouldRetry(item, t) ==
  IF item.retryCount >= MAX_RETRIES THEN FALSE
  ELSE IF Falsy(item.lastAttempt) THEN TRUE
  ELSE t - item.lastAttempt >= getRetryDelay(item.retryCount)

(***************************************************************************)
(* Queue store (lib/storage.ts): the pure parts of the read-modify-write   *)
(***************************************************************************)
\* queue.filter((item) => item.id !== id)
FilterOut(q, id) == SelectSeq(q, LAMBDA it : it.id # id)

\* queue.findIndex((item) => item.id === id); 0 stands for -1
FindIndex(q, id) ==
  IF \E i \in 1..Len(q) : q[i].id = id
    THEN CHOOSE i \in 1..Len(q) :
           q[i].id = id /\ \A j \in 1..(i-1) : q[j].id # id
    ELSE 0

\* the item rebuilt from the updates instead of merged with them: its
\* attachments and creation time are not carried over
MergeRebuilt(it, rc, la, err) ==
  [ id |-> it.id, reportData |-> it.reportData, photos |-> 0,
    retryCount |-> rc, createdAt |-> la, lastAttempt |-> la, error |-> err ]

\* { ...queue[index], ...updates } for the updates syncSingleReport passes
Merge(it, rc, la, err) ==
  [it EXCEPT !.retryCount = rc, !.lastAttempt = la, !.error = err]

\* the merged item pushed to the end instead of stored at its index
UpdateAppended(q, id, rc, la, err) ==
  Append(q, Merge(q[FindIndex(q, id)], rc, la, err))

\* queue[index] = { ...queue[index], ...updates }
UpdateAt(q, id, rc, la, err) ==
  [q EXCEPT ![FindIndex(q, id)] = Merge(q[FindIndex(q, id)], rc, la, err)]

(***************************************************************************)
(* State                                                                   *)
(***************************************************************************)
VARIABLES
  queue,     \* the blob stored under SYNC_QUEUE_KEY, parsed: Seq of items
  now,       \* Date.now()
  net,       \* NetInfo state.isConnected: "true", "false" or "null"
  nextId,    \* next fresh id addToSyncQueue generates
  faults,    \* platform failures (storage, NetInfo) injected so far
  conn,      \* useNetworkStatus: isConnected state and its rendered value
  hook,      \* per mounted useOfflineSync: React state and rendered closure
  pass,      \* per slot: one execution of syncPendingReports
  form,      \* the report form's handleSubmit
  acked,     \* history: ids for which a pass's createReport succeeded
  rejected   \* history: ids for which a pass's createReport was rejected

vars == <<queue, now, net, nextId, faults, conn, hook, pass, form,
          acked, rejected>>

\* state.isConnected ?? false
Coalesce(v) == IF v = "null" THEN "false" ELSE v

\* okIds, failedIds, sawOffline, offlineIds and uploadFailed are history: the
\* ids this pass's createReport succeeded for, the ids this pass counted as
\* failed, whether isOnline() was false for an item of this pass and for
\* which ids, and whether an upload of the current item failed
IdlePass ==
  [ owner |-> NoOwner, pc |-> "free", snap |-> <<>>, idx |-> 0, rd |-> <<>>,
    photoIdx |-> 0, la |-> Absent, err |-> "",
    synced |-> 0, failed |-> 0, skipped |-> 0, okIds |-> {},
    failedIds |-> {}, sawOffline |-> FALSE, offlineIds |-> {},
    uploadFailed |-> FALSE ]

\* inTry: the addToSyncQueue call in progress is the offline branch's, inside
\* handleSubmit's try block. cause is history: what led handleSubmit to
\* addToSyncQueue ("offline": isOnline() was false; "unavailable": isOnline()
\* rejected; "network": createReport or an upload failed without response).
\* deduped is history: the ids the duplicate clean-up of this handleSubmit
\* has removed from the queue, kept until handleSubmit goes on to its sync.
IdleForm ==
  [ pc |-> "idle", reportData |-> CHOOSE d \in ReportDatas : TRUE,
    photos |-> 0, rd |-> <<>>, matches |-> <<>>, newId |-> 0,
    inTry |-> FALSE, cause |-> "", deduped |-> {} ]

\* every useNetworkStatus instance is set by the same NetInfo events in the
\* same task, so one copy stands for all: isConnected is the React state,
\* rConnected the value the last committed render saw
InitConn == [ isConnected |-> "null", rConnected |-> "null" ]

\* the mount effect (deps []) runs once, with the isConnected of the first
\* render: if (isConnected) setTimeout(() => performSync(), 2000)
MountArms(c) == c = "true"

\* useState initial values; rSyncing is the isSyncing the callbacks of the
\* last committed render closed over. syncNowCalls is history: the syncNow
\* calls of the current render that went on to start a pass, counted while
\* isSyncing has not been set back to false. dropped is history: "dropped"
\* once a trigger of this hook was dropped because isSyncing was set,
\* "retried" once a pass of this hook has started after that. startTimer
\* tells whether the mount effect has armed the app-start timer
InitHook ==
  [ isSyncing |-> FALSE, rSyncing |-> FALSE,
    pendingCount |-> 0, lastSyncTime |-> Absent, syncNowCalls |-> 0,
    dropped |-> "", startTimer |-> MountArms(InitConn.rConnected) ]

Init ==
  /\ queue = <<>>
  /\ now = StartTime
  /\ net \in {"true", "false", "null"}
  /\ nextId = 1
  /\ faults = 0
  /\ conn = InitConn
  /\ hook = [h \in Hooks |-> InitHook]
  /\ pass = [p \in PassIds |-> IdlePass]
  /\ form = IdleForm
  /\ acked = {}
  /\ rejected = {}

CanFault == faults < MaxFaults

\* the asynchronous tasks in flight: the passes the hooks started, and
\* handleSubmit (its own pass is part of it)
Tasks ==
  Cardinality({ p \in PassIds : pass[p].owner \notin {NoOwner, FormOwner} })
  + (IF form.pc = "idle" THEN 0 ELSE 1)

\* how many more tasks may start when at most K run at once
Room(K) == K - Tasks

NewPass(owner) == [IdlePass EXCEPT !.owner = owner, !.pc = "read"]

\* the guard with the connectivity test the wrong way round
PerformSyncRunsOffline(h) == conn.rConnected # "true" /\ ~hook[h].rSyncing

\* the guard taking only a known false for offline: unknown (null) passes
PerformSyncRunsUnknown(h) == conn.rConnected # "false" /\ ~hook[h].rSyncing

\* performSync's guard, evaluated on the values its closure captured:
\* if (!isConnected || isSyncing) return
PerformSyncRuns(h) == conn.rConnected = "true" /\ ~hook[h].rSyncing

InSeq(x, sq) == \E i \in 1..Len(sq) : sq[i] = x

\* performSync past its guard, for each owner in turn: the call of
\* syncPendingReports, which suspends in getSyncQueue
RECURSIVE StartPasses(_, _, _)
StartPasses(ps, owners, K) ==
  IF owners = <<>> THEN ps
  ELSE LET free == { p \in 1..K : ps[p].owner = NoOwner }
           s == CHOOSE p \in free : \A q \in free : p <= q
       IN StartPasses([ps EXCEPT ![s] = NewPass(Head(owners))],
                      Tail(owners), K)

\* performSync past its guard: setIsSyncing(true)
Began(hk) ==
  [hk EXCEPT !.isSyncing = TRUE,
             !.dropped = IF @ = "dropped" THEN "retried" ELSE @]

SetSyncing(owners) ==
  [h \in Hooks |-> IF InSeq(h, owners) THEN Began(hook[h]) ELSE hook[h]]

(***************************************************************************)
(* Environment: clock, connectivity, app state                             *)
(***************************************************************************)
Tick ==
  /\ now < StartTime + MaxTicks * Minute
  /\ now' = now + Minute
  /\ UNCHANGED <<queue, net, nextId, faults, conn, hook, pass, form,
                 acked, rejected>>

\* NetInfo listener / initial fetch of useNetworkStatus: setIsConnected.
\* NetInfo reports null while the state is unknown, which is before its
\* first event; an event carries true or false.
NetEvent(v) ==
  /\ net' = v
  /\ conn' = [conn EXCEPT !.isConnected = Coalesce(v)]
  /\ UNCHANGED <<queue, now, nextId, faults, hook, pass, form,
                 acked, rejected>>

\* AppState 'change' listener, on the event that brings the app back:
\* appStateRef.current matches /inactive|background/, nextAppState is 'active'.
\* (The event that sent it to the background only sets the ref.) Every mounted
\* hook's listener runs in the same task.
Foreground(K) ==
  /\ conn.rConnected = "true"
  /\ LET owners == SelectSeq([h \in 1..NumHooks |-> h],
                     LAMBDA h : PerformSyncRuns(h))
     IN /\ owners # <<>>
        /\ Len(owners) <= Room(K)
        /\ pass' = StartPasses(pass, owners, K)
        /\ hook' = SetSyncing(owners)
  /\ UNCHANGED <<queue, now, net, nextId, faults, conn, form, acked, rejected>>

(***************************************************************************)
(* useOfflineSync (hooks/useOfflineSync.ts)                                *)
(***************************************************************************)
\* syncNow: if (isSyncing) return; await performSync()
SyncNow(h, K) ==
  /\ ~hook[h].rSyncing
  /\ PerformSyncRuns(h)
  /\ Room(K) > 0
  /\ pass' = StartPasses(pass, <<h>>, K)
  /\ hook' = [SetSyncing(<<h>>) EXCEPT ![h].syncNowCalls = @ + 1]
  /\ UNCHANGED <<queue, now, net, nextId, faults, conn, form,
                 acked, rejected>>

\* the timer armed the wrong way round, while a pass is shown as active
TimerRunsWhileSyncing(h) == conn.rConnected = "true" /\ hook[h].rSyncing

\* the interval effect arms the timer if (isConnected), and the callback
\* goes on if (!isSyncing)
TimerRuns(h) == conn.rConnected = "true" /\ ~hook[h].rSyncing

\* the setInterval callback: if (!isSyncing) performSync()
IntervalFire(h, K) ==
  /\ TimerRuns(h)
  /\ PerformSyncRuns(h)
  /\ Room(K) > 0
  /\ pass' = StartPasses(pass, <<h>>, K)
  /\ hook' = SetSyncing(<<h>>)
  /\ UNCHANGED <<queue, now, net, nextId, faults, conn, form,
                 acked, rejected>>

\* React commits the pending state updates: the callbacks are re-created with
\* the new values and the effects whose dependencies changed run. The
\* reconnect effect (deps [isConnected]) calls performSync of this render.
Stale ==
  \/ conn.rConnected # conn.isConnected
  \/ \E h \in Hooks : hook[h].rSyncing # hook[h].isSyncing

Render(K) ==
  /\ Stale
  /\ LET owners == SelectSeq([h \in 1..NumHooks |-> h],
                     LAMBDA h : /\ conn.rConnected # conn.isConnected
                                /\ conn.isConnected = "true"
                                /\ ~hook[h].isSyncing)
     IN /\ Len(owners) <= Room(K)
        /\ pass' = StartPasses(pass, owners, K)
        /\ hook' = [h \in Hooks |->
                     [(IF InSeq(h, owners) THEN Began(hook[h]) ELSE hook[h])
                        EXCEPT !.rSyncing = hook[h].isSyncing,
                               !.syncNowCalls = 0]]
        /\ conn' = [conn EXCEPT !.rConnected = conn.isConnected]
  /\ UNCHANGED <<queue, now, net, nextId, faults, form,
                 acked, rejected>>

\* a trigger of hook h fires while isSyncing is set and starts nothing: the
\* early return of syncNow, of performSync (timer, return to foreground), of
\* the timer's callback, or the reconnect effect of the render about to be
\* committed, which does not call performSync
TriggerDropped(h) ==
  /\ hook[h].dropped # "dropped"
  /\ \/ conn.rConnected = "true" /\ hook[h].rSyncing
     \/ /\ conn.rConnected # conn.isConnected
        /\ conn.isConnected = "true"
        /\ hook[h].isSyncing
  /\ hook' = [hook EXCEPT ![h].dropped = "dropped"]
  /\ UNCHANGED <<queue, now, net, nextId, faults, conn, pass, form,
                 acked, rejected>>

\* updatePendingCount from the 10 s interval and the mount effect
UpdatePendingCount(h) ==
  /\ hook[h].pendingCount # Len(queue)
  /\ hook' = [hook EXCEPT ![h].pendingCount = Len(queue)]
  /\ UNCHANGED <<queue, now, net, nextId, faults, conn, pass, form,
                 acked, rejected>>

(***************************************************************************)
(* getSyncQueue (lib/storage.ts): a failed read is swallowed and yields [] *)
(***************************************************************************)
ReadResults == {queue} \cup (IF CanFault THEN {<<>>} ELSE {})

Faulted(result) == IF result = queue THEN faults ELSE faults + 1

(***************************************************************************)
(* syncPendingReports / syncSingleReport (lib/sync.ts)                     *)
(***************************************************************************)
\* the for loop from index i up to the next item that passes shouldRetry
RECURSIVE SkipTo(_, _, _)
SkipTo(snap, i, t) ==
  IF i > Len(snap) THEN i
  ELSE IF shouldRetry(snap[i], t) THEN i
  ELSE SkipTo(snap, i + 1, t)

\* the loop without skipped++ in front of continue
ContinueUncounted(ps, from, t) ==
  LET j == SkipTo(ps.snap, from, t)
  IN [ps EXCEPT !.idx = j,
                !.pc = IF j <= Len(ps.snap) THEN "online" ELSE "return",
                !.rd = <<>>, !.photoIdx = 0, !.la = Absent, !.err = "",
                !.uploadFailed = FALSE]

\* continue the loop at index from: count the skipped items, then either
\* call syncSingleReport (which suspends in isOnline) or return the result
Continue(ps, from, t) ==
  LET j == SkipTo(ps.snap, from, t)
  IN [ps EXCEPT !.idx = j, !.skipped = @ + (j - from),
                !.pc = IF j <= Len(ps.snap) THEN "online" ELSE "return",
                !.rd = <<>>, !.photoIdx = 0, !.la = Absent, !.err = "",
                !.uploadFailed = FALSE]

\* the loop walking the snapshot from its end
ItemReversed(p) == pass[p].snap[Len(pass[p].snap) + 1 - pass[p].idx]

\* for (const item of queue): the item the loop is at
Item(p) == pass[p].snap[pass[p].idx]

\* syncSingleReport returned { success: false }: failed++
CountFailed(ps) ==
  [ps EXCEPT !.failed = @ + 1, !.failedIds = @ \cup {ps.snap[ps.idx].id}]

\* const queue = await getSyncQueue()
PassRead(p) ==
  /\ pass[p].pc = "read"
  /\ \E r \in ReadResults :
       /\ pass' = [pass EXCEPT ![p] = Continue([@ EXCEPT !.snap = r], 1, now)]
       /\ faults' = Faulted(r)
  /\ UNCHANGED <<queue, now, net, nextId, conn, hook, form,
                 acked, rejected>>

\* await isOnline() resolves; offline returns { success: false }, online goes
\* on to shouldRetry and the createReport call
PassOnline(p) ==
  /\ pass[p].pc = "online"
  /\ pass' = [pass EXCEPT ![p] =
       IF Coalesce(net) = "true" /\ shouldRetry(Item(p), now)
         THEN [@ EXCEPT !.pc = "create"]
         ELSE Continue([CountFailed(@) EXCEPT
                          !.sawOffline = @ \/ Coalesce(net) # "true",
                          !.offlineIds = IF Coalesce(net) # "true"
                                           THEN @ \cup {Item(p).id} ELSE @],
                       @.idx + 1, now)]
  /\ UNCHANGED <<queue, now, net, nextId, faults, conn, hook, form,
                 acked, rejected>>

\* NetInfo.fetch() rejects: the catch block sees an error without response
PassOnlineThrows(p) ==
  /\ pass[p].pc = "online"
  /\ CanFault
  /\ faults' = faults + 1
  /\ pass' = [pass EXCEPT ![p].pc = "updRead", ![p].la = now,
                          ![p].err = "netinfo"]
  /\ UNCHANGED <<queue, now, net, nextId, conn, hook, form,
                 acked, rejected>>

\* apiClient.createReport resolves
PassCreateOk(p) ==
  /\ pass[p].pc = "create"
  /\ acked' = acked \cup {Item(p).id}
  /\ pass' = [pass EXCEPT
       ![p].okIds = @ \cup {Item(p).id},
       ![p].pc = IF Item(p).photos > 0 THEN "photo" ELSE "rmRead",
       ![p].photoIdx = IF Item(p).photos > 0 THEN 1 ELSE 0]
  /\ UNCHANGED <<queue, now, net, nextId, faults, conn, hook, form,
                 rejected>>

\* createReport rejects with a network-class error
PassCreateNetworkError(p) ==
  /\ pass[p].pc = "create"
  /\ pass' = [pass EXCEPT ![p].pc = "updRead", ![p].la = now,
                          ![p].err = "network"]
  /\ UNCHANGED <<queue, now, net, nextId, faults, conn, hook, form,
                 acked, rejected>>

\* createReport rejects with an error that carries a response
PassCreateRejected(p) ==
  /\ pass[p].pc = "create"
  /\ rejected' = rejected \cup {Item(p).id}
  /\ pass' = [pass EXCEPT ![p].pc = "rejRead"]
  /\ UNCHANGED <<queue, now, net, nextId, faults, conn, hook, form,
                 acked>>

\* one uploadPhoto settles, resolved (ok) or rejected: the rejection is
\* caught inside the loop and logged, and the loop goes on
AfterUpload(ps, photos, ok) ==
  LET seen == [ps EXCEPT !.uploadFailed = @ \/ ~ok]
  IN IF ps.photoIdx < photos
       THEN [seen EXCEPT !.photoIdx = @ + 1]
       ELSE [seen EXCEPT !.pc = "rmRead"]

PassPhoto(p) ==
  /\ pass[p].pc = "photo"
  /\ \E ok \in BOOLEAN :
       pass' = [pass EXCEPT ![p] = AfterUpload(@, Item(p).photos, ok)]
  /\ UNCHANGED <<queue, now, net, nextId, faults, conn, hook, form,
                 acked, rejected>>

\* removeFromSyncQueue / updateSyncQueueItem: const queue = await getSyncQueue()
\* updateSyncQueueItem writes only if (index >= 0)
PassStoreRead(p) ==
  /\ pass[p].pc \in {"rmRead", "rejRead", "updRead"}
  /\ \E r \in ReadResults :
       /\ faults' = Faulted(r)
       /\ pass' = [pass EXCEPT ![p] =
            CASE @.pc = "rmRead" -> [@ EXCEPT !.rd = r, !.pc = "rmWrite"]
              [] @.pc = "rejRead" -> [@ EXCEPT !.rd = r, !.pc = "rejWrite"]
              [] @.pc = "updRead" ->
                   IF FindIndex(r, Item(p).id) > 0
                     THEN [@ EXCEPT !.rd = r, !.pc = "updWrite"]
                     ELSE Continue(CountFailed(@), @.idx + 1, now)]
  /\ UNCHANGED <<queue, now, net, nextId, conn, hook, form,
                 acked, rejected>>

\* removeFromSyncQueue after success: setItem(filtered) resolves
PassRemoveWrite(p) ==
  /\ pass[p].pc = "rmWrite"
  /\ queue' = FilterOut(pass[p].rd, Item(p).id)
  /\ pass' = [pass EXCEPT ![p] =
       Continue([@ EXCEPT !.synced = @ + 1], @.idx + 1, now)]
  /\ UNCHANGED <<now, net, nextId, faults, conn, hook, form,
                 acked, rejected>>

\* ... rejects: the throw lands in syncSingleReport's own catch block,
\* as an error without response
PassRemoveWriteFails(p) ==
  /\ pass[p].pc = "rmWrite"
  /\ CanFault
  /\ faults' = faults + 1
  /\ pass' = [pass EXCEPT ![p].pc = "updRead", ![p].la = now,
                          ![p].err = "storage", ![p].rd = <<>>]
  /\ UNCHANGED <<queue, now, net, nextId, conn, hook, form,
                 acked, rejected>>

\* updateSyncQueueItem(item.id, { retryCount: item.retryCount + 1, ... })
PassUpdateWrite(p) ==
  /\ pass[p].pc = "updWrite"
  /\ queue' = UpdateAt(pass[p].rd, Item(p).id, Item(p).retryCount + 1,
                       pass[p].la, pass[p].err)
  /\ pass' = [pass EXCEPT ![p] =
       Continue(CountFailed(@), @.idx + 1, now)]
  /\ UNCHANGED <<now, net, nextId, faults, conn, hook, form,
                 acked, rejected>>

\* removeFromSyncQueue in the catch block (rejected item)
PassRejectWrite(p) ==
  /\ pass[p].pc = "rejWrite"
  /\ queue' = FilterOut(pass[p].rd, Item(p).id)
  /\ pass' = [pass EXCEPT ![p] =
       Continue(CountFailed(@), @.idx + 1, now)]
  /\ UNCHANGED <<now, net, nextId, faults, conn, hook, form,
                 acked, rejected>>

\* a setItem inside the catch block rejects: syncSingleReport, and with it
\* syncPendingReports, rejects
PassCatchWriteFails(p) ==
  /\ pass[p].pc \in {"updWrite", "rejWrite"}
  /\ CanFault
  /\ faults' = faults + 1
  /\ pass' = [pass EXCEPT ![p].pc = "throw"]
  /\ UNCHANGED <<queue, now, net, nextId, conn, hook, form,
                 acked, rejected>>

(***************************************************************************)
(* performSync after await syncPendingReports() (hooks/useOfflineSync.ts)  *)
(* and handleSubmit after its own call (components/ReportFormModal.tsx)    *)
(***************************************************************************)
\* syncPendingReports resolved: setLastSyncTime(Date.now()), then
\* await updatePendingCount(); the form just goes on to its alert
PassReturn(p) ==
  /\ pass[p].pc = "return"
  /\ IF pass[p].owner = FormOwner
       THEN /\ pass' = [pass EXCEPT ![p] = IdlePass]
            /\ form' = IdleForm
            /\ hook' = hook
       ELSE /\ pass' = [pass EXCEPT ![p].pc = "count"]
            /\ hook' = [hook EXCEPT ![pass[p].owner].lastSyncTime = now]
            /\ form' = form
  /\ UNCHANGED <<queue, now, net, nextId, faults, conn, acked, rejected>>

\* performSync with setIsSyncing(false) at the end of the try block instead
\* of in finally: a rejected pass leaves the flag as it is
PassThrowKeepsSyncing(p) ==
  /\ pass[p].pc = "throw"
  /\ pass' = [pass EXCEPT ![p] = IdlePass]
  /\ IF pass[p].owner = FormOwner
       THEN form' = IdleForm /\ hook' = hook
       ELSE /\ hook' = [hook EXCEPT ![pass[p].owner].syncNowCalls = 0]
            /\ form' = form
  /\ UNCHANGED <<queue, now, net, nextId, faults, conn, acked, rejected>>

\* syncPendingReports rejected: catch, then finally setIsSyncing(false)
PassThrow(p) ==
  /\ pass[p].pc = "throw"
  /\ pass' = [pass EXCEPT ![p] = IdlePass]
  /\ IF pass[p].owner = FormOwner
       THEN form' = IdleForm /\ hook' = hook
       ELSE /\ hook' = [hook EXCEPT ![pass[p].owner].isSyncing = FALSE,
                                    ![pass[p].owner].syncNowCalls = 0]
            /\ form' = form
  /\ UNCHANGED <<queue, now, net, nextId, faults, conn, acked, rejected>>

\* updatePendingCount's getSyncQueue resolves: setPendingCount, then
\* finally setIsSyncing(false)
PassCount(p) ==
  /\ pass[p].pc = "count"
  /\ \E r \in ReadResults :
       /\ faults' = Faulted(r)
       /\ hook' = [hook EXCEPT ![pass[p].owner].pendingCount = Len(r),
                               ![pass[p].owner].isSyncing = FALSE,
                               ![pass[p].owner].syncNowCalls = 0]
  /\ pass' = [pass EXCEPT ![p] = IdlePass]
  /\ UNCHANGED <<queue, now, net, nextId, conn, form, acked, rejected>>

(***************************************************************************)
(* handleSubmit (components/ReportFormModal.tsx)                           *)
(***************************************************************************)
\* planar distance in metres < 10, coordinates in units of 1e-5 degree:
\* sqrt(dlat^2 + dlng^2) * 1e-5 * 111000 < 10, squared and scaled
WithinTenMetres(a, b) ==
  LET d2 == (a.lat - b.lat) * (a.lat - b.lat)
            + (a.lng - b.lng) * (a.lng - b.lng)
  IN d2 * 12321 < 1000000

\* the filter predicate: content stands for title, description and type
Matches(itemData, submitted) ==
  WithinTenMetres(itemData, submitted) /\ itemData.content = submitted.content

MatchingIds(q, submitted) ==
  LET m == SelectSeq(q, LAMBDA it : Matches(it.reportData, submitted))
  IN [i \in 1..Len(m) |-> m[i].id]

\* the user presses submit on a valid form: await isOnline()
FormSubmit(f, K) ==
  /\ form.pc = "idle"
  /\ Room(K) > 0
  /\ form' = [form EXCEPT !.pc = "online", !.reportData = f.reportData,
                          !.photos = f.photos]
  /\ UNCHANGED <<queue, now, net, nextId, faults, conn, hook, pass,
                 acked, rejected>>

\* isOnline() resolves: offline saves to the queue, online calls createReport
FormOnline(N) ==
  /\ form.pc = "online"
  /\ Coalesce(net) = "true" \/ nextId <= N
  /\ form' = [form EXCEPT !.pc = IF Coalesce(net) = "true" THEN "create"
                                 ELSE "addRead",
                          !.inTry = (Coalesce(net) # "true"),
                          !.cause = IF Coalesce(net) = "true" THEN ""
                                    ELSE "offline"]
  /\ UNCHANGED <<queue, now, net, nextId, faults, conn, hook, pass,
                 acked, rejected>>

\* NetInfo.fetch() rejects: the catch block takes it for a network error
FormOnlineThrows(N) ==
  /\ form.pc = "online"
  /\ CanFault
  /\ nextId <= N
  /\ faults' = faults + 1
  /\ form' = [form EXCEPT !.pc = "addRead", !.cause = "unavailable"]
  /\ UNCHANGED <<queue, now, net, nextId, conn, hook, pass,
                 acked, rejected>>

\* createReport, and then Promise.all of the uploads, settle
FormRemote(outcome, N) ==
  /\ form.pc \in {"create", "photos"}
  /\ outcome = "network" => nextId <= N
  /\ form' =
       CASE outcome = "ok" ->
              [form EXCEPT !.pc = IF form.pc = "create" /\ form.photos > 0
                                    THEN "photos" ELSE "dedupRead"]
         [] outcome = "network" ->
              [form EXCEPT !.pc = "addRead", !.cause = "network"]
         [] outcome = "rejected" -> IdleForm
  /\ UNCHANGED <<queue, now, net, nextId, faults, conn, hook, pass,
                 acked, rejected>>

\* addToSyncQueue: getSyncQueue resolves, the item is built and pushed
FormAddRead ==
  /\ form.pc = "addRead"
  /\ \E r \in ReadResults :
       /\ faults' = Faulted(r)
       /\ form' = [form EXCEPT
            !.pc = "addWrite", !.newId = nextId,
            !.rd = Append(r, NewItem(nextId, form.reportData,
                                     form.photos, now))]
  /\ nextId' = nextId + 1
  /\ UNCHANGED <<queue, now, net, conn, hook, pass, acked, rejected>>

\* addToSyncQueue: setItem resolves and the id is returned
FormAddWrite ==
  /\ form.pc = "addWrite"
  /\ queue' = form.rd
  /\ form' = IdleForm
  /\ UNCHANGED <<now, net, nextId, faults, conn, hook, pass,
                 acked, rejected>>

\* ... or rejects: addToSyncQueue rethrows. Thrown by the offline branch's
\* call, inside the try block, it lands in handleSubmit's catch block, which
\* takes it for a network error and calls addToSyncQueue again; thrown by the
\* catch block's call, handleSubmit shows an error. The id that was
\* generated is stored nowhere, so its number is free again.
FormAddWriteFails ==
  /\ form.pc = "addWrite"
  /\ CanFault
  /\ faults' = faults + 1
  /\ nextId' = form.newId
  /\ form' = IF form.inTry
               THEN [form EXCEPT !.pc = "addRead", !.inTry = FALSE,
                                 !.rd = <<>>, !.newId = 0]
               ELSE IdleForm
  /\ UNCHANGED <<queue, now, net, conn, hook, pass, acked, rejected>>

\* the duplicate clean-up: getSyncQueue resolves and the queue is filtered
FormDedupRead ==
  /\ form.pc = "dedupRead"
  /\ \E r \in ReadResults :
       /\ faults' = Faulted(r)
       /\ LET m == MatchingIds(r, form.reportData)
          IN form' = [form EXCEPT !.matches = m,
                        !.pc = IF m = <<>> THEN "sync" ELSE "rmRead"]
  /\ UNCHANGED <<queue, now, net, nextId, conn, hook, pass,
                 acked, rejected>>

\* removeFromSyncQueue(item.id) for the next matching item: its read
FormRemoveRead ==
  /\ form.pc = "rmRead"
  /\ \E r \in ReadResults :
       /\ faults' = Faulted(r)
       /\ form' = [form EXCEPT !.rd = r, !.pc = "rmWrite"]
  /\ UNCHANGED <<queue, now, net, nextId, conn, hook, pass,
                 acked, rejected>>

\* ... and its write
FormRemoveWrite ==
  /\ form.pc = "rmWrite"
  /\ queue' = FilterOut(form.rd, Head(form.matches))
  /\ form' = [form EXCEPT !.matches = Tail(@), !.rd = <<>>,
                !.pc = IF Tail(form.matches) = <<>> THEN "sync" ELSE "rmRead",
                !.deduped = @ \cup ({Head(form.matches)} \cap Ids(queue))]
  /\ UNCHANGED <<now, net, nextId, faults, conn, hook, pass,
                 acked, rejected>>

\* ... which rejects: the clean-up's catch block gives up on the rest
FormRemoveWriteFails ==
  /\ form.pc = "rmWrite"
  /\ CanFault
  /\ faults' = faults + 1
  /\ form' = [form EXCEPT !.matches = <<>>, !.rd = <<>>, !.pc = "sync"]
  /\ UNCHANGED <<queue, now, net, nextId, conn, hook, pass,
                 acked, rejected>>

\* await syncPendingReports(), with no look at any isSyncing flag
FormSync(K) ==
  /\ form.pc = "sync"
  /\ pass' = StartPasses(pass, <<FormOwner>>, K)
  /\ form' = [form EXCEPT !.pc = "syncing", !.deduped = {}]
  /\ UNCHANGED <<queue, now, net, nextId, faults, conn, hook,
                 acked, rejected>>

(***************************************************************************)
(* Specifications                                                          *)
(***************************************************************************)
\* the steps of a pass when the platform does not fail
PassRun(p) ==
  \/ PassRead(p)
  \/ PassOnline(p)
  \/ PassCreateOk(p)
  \/ PassCreateNetworkError(p)
  \/ PassCreateRejected(p)
  \/ PassPhoto(p)
  \/ PassStoreRead(p)
  \/ PassRemoveWrite(p)
  \/ PassUpdateWrite(p)
  \/ PassRejectWrite(p)
  \/ PassReturn(p)
  \/ PassCount(p)

\* the steps a platform failure (storage, NetInfo) leads to
PassFault(p) ==
  \/ PassOnlineThrows(p)
  \/ PassRemoveWriteFails(p)
  \/ PassCatchWriteFails(p)
  \/ PassThrow(p)

FormRun(K, N, FS) ==
  \/ \E f \in FS : FormSubmit(f, K)
  \/ FormOnline(N)
  \/ \E o \in {"ok", "network", "rejected"} : FormRemote(o, N)
  \/ FormAddRead
  \/ FormAddWrite
  \/ FormDedupRead
  \/ FormRemoveRead
  \/ FormRemoveWrite
  \/ FormSync(K)

FormFault(N) ==
  \/ FormOnlineThrows(N)
  \/ FormAddWriteFails
  \/ FormRemoveWriteFails

HookStep(K) ==
  \/ \E h \in Hooks : SyncNow(h, K)
  \/ \E h \in Hooks : IntervalFire(h, K)
  \/ \E h \in Hooks : UpdatePendingCount(h)
  \/ Foreground(K)
  \/ Render(K)

\* Spec: the whole program, with at most MaxTasks tasks in flight
Next ==
  \/ Tick
  \/ \E v \in {"true", "false"} : NetEvent(v)
  \/ HookStep(MaxTasks)
  \/ FormRun(MaxTasks, MaxItems, Forms)
  \/ FormFault(MaxItems)
  \/ \E p \in PassIds : PassRun(p)
  \/ \E p \in PassIds : PassFault(p)

Spec == Init /\ [][Next]_vars

\* SpecQueue: two queue items, on a device that stays online and a platform
\* that does not fail, within one minute. It starts when the hook has seen the
\* connection and its reconnect pass over the empty queue has finished.
InitQueue ==
  /\ queue = <<>>
  /\ now = StartTime
  /\ net = "true"
  /\ nextId = 1
  /\ faults = MaxFaults
  /\ conn = [isConnected |-> "true", rConnected |-> "true"]
  /\ hook = [h \in Hooks |-> [InitHook EXCEPT !.lastSyncTime = StartTime]]
  /\ pass = [p \in PassIds |-> IdlePass]
  /\ form = IdleForm
  /\ acked = {}
  /\ rejected = {}

NextQueue ==
  \/ HookStep(MaxTasks)
  \/ FormRun(MaxTasks, QMaxItems, Forms)
  \/ \E p \in PassIds : PassRun(p)

SpecQueue == InitQueue /\ [][NextQueue]_vars

\* SpecItem: as SpecQueue, with MaxItems queue items ever created
NextItem ==
  \/ HookStep(MaxTasks)
  \/ FormRun(MaxTasks, MaxItems, Forms)
  \/ \E p \in PassIds : PassRun(p)

SpecItem == InitQueue /\ [][NextItem]_vars

\* SpecRetry: the retry policy on drawn inputs. The queue holds one item of
\* any retryCount and lastAttempt, the clock shows any minute, and a pass a
\* hook started is about to read the queue: its loop applies shouldRetry.
InitRetry ==
  /\ \E rc \in 0..MaxRetryCount :
     \E la \in {Absent, 0} \cup {StartTime + k * Minute : k \in 0..1} :
       queue = << [NewItem(1, CHOOSE d \in ReportDatas : TRUE, 0, StartTime)
                     EXCEPT !.retryCount = rc, !.lastAttempt = la] >>
  /\ now \in {StartTime + k * Minute : k \in 0..MaxMinutes}
  /\ net = "true"
  /\ nextId = 2
  /\ faults = MaxFaults
  /\ conn = [isConnected |-> "true", rConnected |-> "true"]
  /\ hook = [h \in Hooks |->
              [InitHook EXCEPT !.isSyncing = (h = 1), !.rSyncing = (h = 1)]]
  /\ pass = [p \in PassIds |-> IF p = 1 THEN NewPass(1) ELSE IdlePass]
  /\ form = IdleForm
  /\ acked = {}
  /\ rejected = {}

NextRetry ==
  \/ \E p \in PassIds : PassRead(p)
  \/ \E p \in PassIds : PassOnline(p)

SpecRetry == InitRetry /\ [][NextRetry]_vars

\* SpecPass: one pass on its own over a drawn queue of two items, while
\* connectivity changes and the platform may fail. The first item is fresh;
\* the second is fresh or has used up its retries.
InitPass ==
  /\ \E ph \in 0..MaxPhotos : \E rc \in {0, MAX_RETRIES} :
       queue = << NewItem(1, CHOOSE d \in ReportDatas : TRUE, ph, StartTime),
                  [NewItem(2, CHOOSE d \in ReportDatas : TRUE, 0, StartTime)
                     EXCEPT !.retryCount = rc,
                            !.lastAttempt = IF rc = 0 THEN Absent
                                            ELSE StartTime,
                            !.error = IF rc = 0 THEN "" ELSE "network"] >>
  /\ now = StartTime
  /\ net \in {"true", "false"}
  /\ nextId = 3
  /\ faults = 0
  /\ conn = [isConnected |-> Coalesce(net), rConnected |-> "true"]
  /\ hook = [h \in Hooks |->
              [InitHook EXCEPT !.isSyncing = (h = 1), !.rSyncing = (h = 1),
                               !.pendingCount = 2]]
  /\ pass = [p \in PassIds |-> IF p = 1 THEN NewPass(1) ELSE IdlePass]
  /\ form = IdleForm
  /\ acked = {}
  /\ rejected = {}

NextPass ==
  \/ \E v \in {"true", "false"} : NetEvent(v)
  \/ \E p \in PassIds : PassRun(p)
  \/ \E p \in PassIds : PassFault(p)

SpecPass == InitPass /\ [][NextPass]_vars

\* SpecLive: a report was queued while the device was offline; from now on
\* connectivity can only become true, the remote accepts what it is sent,
\* the platform does not fail and the user does nothing. A pass that began
\* before the report was queued may still be in flight (busy). React commits
\* its pending updates, every await of a pass settles and the two interval
\* timers (periodic sync, pending count refresh) fire.
InitLive ==
  /\ \E ph \in 0..MaxPhotos :
       queue = << NewItem(1, CHOOSE d \in ReportDatas : TRUE, ph, StartTime) >>
  /\ \E busy \in BOOLEAN :
       /\ hook = [h \in Hooks |->
                   [InitHook EXCEPT !.pendingCount = 1,
                                    !.isSyncing = (busy /\ h = 1),
                                    !.rSyncing = (busy /\ h = 1)]]
       /\ pass = [p \in PassIds |->
                   IF busy /\ p = 1 THEN [NewPass(1) EXCEPT !.pc = "return"]
                   ELSE IdlePass]
  /\ now = StartTime
  /\ net = "false"
  /\ nextId = 2
  /\ faults = MaxFaults
  /\ conn = [isConnected |-> "false", rConnected |-> "false"]
  /\ form = IdleForm
  /\ acked = {}
  /\ rejected = {}

\* the steps of a pass whose submissions the remote accepts
PassAccepted(p) ==
  \/ PassRead(p)
  \/ PassOnline(p)
  \/ PassCreateOk(p)
  \/ PassPhoto(p)
  \/ PassStoreRead(p)
  \/ PassRemoveWrite(p)
  \/ PassReturn(p)
  \/ PassCount(p)

NextLive ==
  \/ Tick
  \/ NetEvent("true")
  \/ Render(MaxTasks)
  \/ \E h \in Hooks : IntervalFire(h, MaxTasks)
  \/ \E h \in Hooks : UpdatePendingCount(h)
  \/ Foreground(MaxTasks)
  \/ \E p \in PassIds : PassAccepted(p)

SpecLive ==
  /\ InitLive
  /\ [][NextLive]_vars
  /\ WF_vars(Render(MaxTasks))
  /\ \A h \in Hooks : WF_vars(IntervalFire(h, MaxTasks))
  /\ \A h \in Hooks : WF_vars(UpdatePendingCount(h))
  /\ \A p \in PassIds : WF_vars(PassAccepted(p))

\* SpecTrigger: one report is queued and a pass of the hook is in flight: it
\* is about to read the queue, or it read the queue before the report was
\* stored and is about to return. Triggers fire and are dropped, connectivity
\* changes, the remote answers in any way and the platform may fail; the
\* user does nothing and the clock stays within the same minute. React
\* commits its pending updates, every await of a pass settles and the
\* periodic timer fires while it is armed.
InitTrigger ==
  /\ queue = << NewItem(1, CHOOSE d \in ReportDatas : TRUE, MaxPhotos,
                        StartTime) >>
  /\ now = StartTime
  /\ net \in {"true", "false"}
  /\ nextId = 2
  /\ faults = 0
  /\ conn = [isConnected |-> net, rConnected |-> "true"]
  /\ hook = [h \in Hooks |->
              [InitHook EXCEPT !.isSyncing = (h = 1), !.rSyncing = (h = 1),
                               !.pendingCount = 1]]
  /\ \E pc \in {"read", "return"} :
       pass = [p \in PassIds |->
                IF p = 1 THEN [NewPass(1) EXCEPT !.pc = pc] ELSE IdlePass]
  /\ form = IdleForm
  /\ acked = {}
  /\ rejected = {}

PassStep(p) == PassRun(p) \/ PassFault(p)

NextTrigger ==
  \/ \E v \in {"true", "false"} : NetEvent(v)
  \/ Render(MaxTasks)
  \/ \E h \in Hooks : IntervalFire(h, MaxTasks)
  \/ \E h \in Hooks : TriggerDropped(h)
  \/ Foreground(MaxTasks)
  \/ \E p \in PassIds : PassStep(p)

SpecTrigger ==
  /\ InitTrigger
  /\ [][NextTrigger]_vars
  /\ WF_vars(Render(MaxTasks))
  /\ \A h \in Hooks : WF_vars(IntervalFire(h, MaxTasks))
  /\ \A p \in PassIds : WF_vars(PassStep(p))

(***************************************************************************)
(* Properties                                                              *)
(***************************************************************************)
\* a pass is active from the call of syncPendingReports until its promise
\* settles
ActivePasses ==
  { p \in PassIds : pass[p].pc \notin {"free", "return", "throw", "count"} }

\* C1: at most one sync pass (one execution of syncPendingReports) is active
\* at any time, whichever triggers fire (syncNow, reconnect, timer, return to
\* foreground, the report form's own sync after a submit).
C1_AtMostOnePassActive == Cardinality(ActivePasses) <= 1

\* C2: syncNow called twice in immediate succession, the second call before
\* the render that shows the first call's isSyncing, starts exactly one pass:
\* of the syncNow calls of one render, at most one starts a pass.
C2_SyncNowTwiceStartsOnePass ==
  \A h \in Hooks : hook[h].syncNowCalls <= 1

\* the pass in slot p finishes with this step
Finishes(p) ==
  /\ pass[p].pc \notin {"return", "throw"}
  /\ pass'[p].pc \in {"return", "throw"}

\* C3: once createReport has succeeded for an item during a pass, the item's
\* id is absent from the queue when that pass finishes, and an id whose
\* submission succeeded and that has left the queue never comes back.
C3_AckedItemGoneForGood ==
  [][ /\ \A p \in PassIds :
           Finishes(p) => pass'[p].okIds \cap Ids(queue') = {}
      /\ \A id \in acked : id \notin Ids(queue) => id \notin Ids(queue')
    ]_vars

\* this step is the write of a removal that targets id: the pass's removal
\* after a success or after a rejection, or the form's duplicate clean-up
RemovalOf(id) ==
  \/ \E p \in PassIds : /\ pass[p].pc \in {"rmWrite", "rejWrite"}
                        /\ Item(p).id = id
                        /\ pass'[p] # pass[p]
  \/ /\ form.pc = "rmWrite"
     /\ Head(form.matches) = id
     /\ form' # form

\* C4: an item that addToSyncQueue has stored stays in the queue until its
\* own submission succeeds, the remote rejects it, or the duplicate clean-up
\* matches it: an id leaves the queue only in a removal that targets it.
C4_ItemLeavesOnlyByItsOwnRemoval ==
  [][ \A id \in Ids(queue) : id \notin Ids(queue') => RemovalOf(id) ]_vars

\* C5: the retryCount stored for a queue item never decreases while the item
\* is in the queue.
C5_RetryCountNeverDecreases ==
  [][ \A i \in 1..Len(queue) : \A j \in 1..Len(queue') :
        queue[i].id = queue'[j].id =>
          queue'[j].retryCount >= queue[i].retryCount ]_vars

\* the backoff schedule as the specification states it, in milliseconds
schedule(k) ==
  CASE k = 0 -> 60000
    [] k = 1 -> 120000
    [] k = 2 -> 240000
    [] OTHER -> 480000

\* C6: no pass calls createReport for an item whose stored retryCount is k
\* and stored lastAttempt is t while now < t + schedule(k).
C6_NoSubmissionBeforeBackoffEnds ==
  [][ \A p \in PassIds :
        (pass[p].pc = "online" /\ pass'[p].pc = "create") =>
          \A i \in 1..Len(queue) :
            (queue[i].id = Item(p).id /\ queue[i].lastAttempt # Absent) =>
              now >= queue[i].lastAttempt + schedule(queue[i].retryCount)
    ]_vars

\* the eligibility rule as the specification states it
Eligible(item, t) ==
  /\ item.retryCount < 5
  /\ \/ item.lastAttempt = Absent
     \/ t - item.lastAttempt >= schedule(item.retryCount)

\* the pass in slot p has applied shouldRetry to the one item of the queue:
\* it went on to submit it, or it skipped it
Decided(p) == pass[p].pc \in {"online", "create", "return"}

Submits(p) == pass[p].pc \in {"online", "create"} /\ pass[p].skipped = 0

\* C7: for every retryCount, every lastAttempt (absent or any timestamp,
\* 0 included) and every now, shouldRetry is true exactly when
\* retryCount < 5 and (lastAttempt is absent or now - lastAttempt >= the
\* scheduled delay).
C7_ShouldRetryIsTheEligibilityRule ==
  \A p \in PassIds :
    Decided(p) => (Submits(p) <=> Eligible(queue[1], now))

\* C8, as stated: an item that has no lastAttempt is eligible whatever its
\* retryCount is, retryCount >= 5 included.
C8_NoLastAttemptAlwaysEligible ==
  \A p \in PassIds :
    (Decided(p) /\ queue[1].lastAttempt = Absent) => Submits(p)

\* C8, amended: an item that has no lastAttempt is eligible exactly when its
\* retryCount is below 5.
C8_NoLastAttemptEligibleBelowMax ==
  \A p \in PassIds :
    (Decided(p) /\ queue[1].lastAttempt = Absent) =>
      (Submits(p) <=> queue[1].retryCount < 5)

\* an item with no lastAttempt and retryCount >= 5 went through shouldRetry
\* and was skipped
C8_Witness ==
  \E p \in PassIds :
    /\ pass[p].pc = "return"
    /\ pass[p].skipped = 1
    /\ queue[1].lastAttempt = Absent
    /\ queue[1].retryCount >= 5

\* the pass in slot p ends its handling of a network-class createReport
\* failure with this step
EndsNetworkFailure(p) ==
  /\ pass[p].pc \in {"updRead", "updWrite"}
  /\ pass[p].err = "network"
  /\ pass'[p].pc \notin {"updRead", "updWrite"}

\* C9: when createReport fails with a network-class error, the item stays in
\* the queue with retryCount one higher than it was, lastAttempt set to the
\* attempt time and error set to the failure message.
C9_NetworkFailureIsRecorded ==
  [][ \A p \in PassIds :
        EndsNetworkFailure(p) =>
          \E i \in 1..Len(queue) : \E j \in 1..Len(queue') :
            /\ queue[i].id = Item(p).id
            /\ queue'[j].id = Item(p).id
            /\ queue'[j].retryCount = queue[i].retryCount + 1
            /\ queue'[j].lastAttempt = pass[p].la
            /\ queue'[j].error = "network"
    ]_vars

\* the pass in slot p ends its handling of a rejection with this step
EndsRejection(p) ==
  /\ pass[p].pc \in {"rejRead", "rejWrite"}
  /\ pass'[p].pc \notin {"rejRead", "rejWrite"}

\* C10: when createReport fails with an error that carries a response, the
\* pass removes the item from the queue and adds no item, and createReport
\* is never called for that item again.
C10_RejectedItemDropped ==
  [][ \A p \in PassIds :
        /\ EndsRejection(p) =>
             /\ Item(p).id \notin Ids(queue')
             /\ Ids(queue') \subseteq Ids(queue)
        /\ (pass[p].pc = "online" /\ pass'[p].pc = "create") =>
             Item(p).id \notin rejected
    ]_vars

\* C14: if isOnline() is false when a pass reaches an item, the pass is
\* aborted: from then on it calls createReport for no item and changes
\* nothing in the queue.
C14_OfflineAbortsThePass ==
  [][ \A p \in PassIds :
        pass[p].sawOffline =>
          /\ ~(pass[p].pc = "online" /\ pass'[p].pc = "create")
          /\ pass'[p] # pass[p] => queue' = queue
    ]_vars

\* the store operation of the pass in slot p is about to write, and its read
\* of the queue had failed (no other task runs in SpecPass, so the copy it
\* holds differs from the stored queue only then)
WritesAfterFailedRead(p) ==
  /\ pass[p].pc \in {"rmWrite", "rejWrite", "updWrite"}
  /\ pass[p].rd # queue

\* C15: when the read or write of the store fails during a queue operation,
\* the operation is not applied: the stored queue stays as it was before the
\* call.
C15_FailedStoreCallLeavesQueue ==
  [][ \A p \in PassIds :
        (WritesAfterFailedRead(p) /\ pass'[p] # pass[p]) => queue' = queue
    ]_vars

\* C17: once an item's stored retryCount is 5 or more, no pass calls
\* createReport for it and no pass removes it from the queue.
C17_ExhaustedItemStaysUntouched ==
  [][ \A i \in 1..Len(queue) :
        queue[i].retryCount >= 5 =>
          /\ queue[i].id \in Ids(queue')
          /\ \A p \in PassIds :
               (pass[p].pc = "online" /\ pass'[p].pc = "create") =>
                 Item(p).id # queue[i].id
    ]_vars

\* C11: when a pass has submitted an item successfully, every other queued
\* item that matches the report just created (same content, within 10 m) is
\* gone from the queue when the pass finishes.
C11_PassReconcilesDuplicates ==
  [][ \A p \in PassIds :
        Finishes(p) =>
          \A i \in 1..Len(pass'[p].snap) :
            pass'[p].snap[i].id \in pass'[p].okIds =>
              \A j \in 1..Len(queue') :
                ~Matches(queue'[j].reportData, pass'[p].snap[i].reportData)
    ]_vars

\* the form's duplicate clean-up ends with this step
EndsReconciliation ==
  /\ form.pc \in {"dedupRead", "rmWrite"}
  /\ form'.pc = "sync"

\* C12: after a direct online submission has succeeded, the clean-up removes
\* every queued item that matches the submitted report and no other item,
\* and the remaining items keep their order.
C12_ReconciliationRemovesExactlyTheMatches ==
  [][ /\ EndsReconciliation =>
           \A j \in 1..Len(queue') :
             ~Matches(queue'[j].reportData, form.reportData)
      /\ (form.pc = "rmWrite" /\ form' # form /\ queue' # queue) =>
           queue' = FilterOut(queue, Head(form.matches))
    ]_vars

\* C16: a pass whose connectivity check fails (NetInfo.fetch rejects) takes
\* the device for offline: it leaves the item's retryCount and lastAttempt,
\* and the rest of the queue, as they are.
C16_UnavailableConnectivityIsOffline ==
  [][ \A p \in PassIds :
        (pass[p].err = "netinfo" /\ pass'[p] # pass[p]) => queue' = queue
    ]_vars

\* the form's addToSyncQueue stores its item with this step
StoresNewItem ==
  /\ form.pc = "addWrite"
  /\ form'.pc = "idle"
  /\ queue' # queue

\* C18: the form creates a queue item only when the connectivity check said
\* offline or the direct submission failed with a network-class error, and
\* the item has retryCount 0, no lastAttempt and no error.
C18_ItemCreatedOnlyOfflineOrNetworkError ==
  [][ StoresNewItem =>
        /\ form.cause \in {"offline", "network"}
        /\ \E j \in 1..Len(queue') :
             /\ queue'[j].id = form.newId
             /\ queue'[j].retryCount = 0
             /\ queue'[j].lastAttempt = Absent
             /\ queue'[j].error = ""
    ]_vars

\* C19: if createReport succeeds for an item and one of its uploads fails,
\* the other uploads still take place in order, the item counts as synced
\* and is removed, its retryCount is not incremented and nothing is queued.
C19_UploadFailureDoesNotFailTheItem ==
  [][ \A p \in PassIds :
        /\ (pass[p].pc = "photo" /\ pass'[p] # pass[p]) =>
             \/ pass'[p].pc = "photo" /\ pass'[p].photoIdx = pass[p].photoIdx + 1
             \/ pass'[p].pc = "rmRead" /\ pass[p].photoIdx = Item(p).photos
        /\ (pass[p].uploadFailed /\ ~pass'[p].uploadFailed) =>
             /\ pass'[p].synced = pass[p].synced + 1
             /\ Item(p).id \notin Ids(queue')
             /\ Ids(queue') \subseteq Ids(queue)
        /\ pass[p].uploadFailed => pass'[p].pc # "updRead"
    ]_vars

\* the items two queues have in common are in the same relative order
SameOrder(q1, q2) ==
  \A i, j \in 1..Len(q1) : \A k, l \in 1..Len(q2) :
    (i < j /\ q1[i].id = q2[k].id /\ q1[j].id = q2[l].id) => k < l

\* C20: getSyncQueue returns the stored items in insertion order: a read
\* returns the stored sequence, addToSyncQueue puts the new item after all
\* existing ones, and removals and updates keep the order of the others.
C20_ReadsReturnTheQueueInInsertionOrder ==
  [][ /\ \A p \in PassIds :
           (pass[p].pc = "read" /\ pass'[p].pc # "read") =>
             pass'[p].snap = queue
      /\ StoresNewItem => SubSeq(queue', 1, Len(queue)) = queue
      /\ SameOrder(queue, queue')
    ]_vars

\* the queue is empty and every hook shows a pending count of 0
NothingPending ==
  /\ queue = <<>>
  /\ \A h \in Hooks : hook[h].pendingCount = 0

\* C13: a report is queued while the device is offline (pending count 1);
\* once connectivity is true and stays true and the remote accepts the
\* report, a pass runs without user action and the pending count
\* eventually becomes 0.
C13_ReconnectDrainsTheQueue == (net = "true") ~> NothingPending

\* the queued report was submitted by a pass and nothing is pending
C13_Witness ==
  /\ net = "true"
  /\ acked = {1}
  /\ NothingPending

\* the item without the fields syncSingleReport passes as updates
Unnamed(it) == [it EXCEPT !.retryCount = 0, !.lastAttempt = Absent, !.error = ""]

\* the write of updateSyncQueueItem by the pass in slot p takes place
UpdateWrites(p) ==
  /\ pass[p].pc = "updWrite"
  /\ pass'[p] # pass[p]
  /\ pass'[p].pc # "throw"

\* C21: updateSyncQueueItem(id, updates) changes only the fields named in
\* updates on the item with that id: the number of items is unchanged, every
\* other item is unchanged, and the item keeps its unnamed fields.
C21_UpdateChangesOnlyNamedFields ==
  [][ \A p \in PassIds :
        UpdateWrites(p) =>
          /\ Len(queue') = Len(queue)
          /\ \A i \in 1..Len(queue) :
               IF queue[i].id = Item(p).id
                 THEN /\ Unnamed(queue'[i]) = Unnamed(queue[i])
                      /\ queue'[i].retryCount = Item(p).retryCount + 1
                      /\ queue'[i].lastAttempt = pass[p].la
                      /\ queue'[i].error = pass[p].err
                 ELSE queue'[i] = queue[i]
    ]_vars

\* syncPendingReports returns its result with this step of the pass in slot p
Returns(p) == pass[p].pc # "return" /\ pass'[p].pc = "return"

\* C22: the result of a pass gives three counts over its snapshot: synced
\* (submitted and removed), failed (attempt failed, item retained) and
\* skipped (ineligible). Every item of the snapshot is in one of them, and
\* every item counted as failed is still in the queue when the pass ends.
C22_FailedItemsAreRetained ==
  [][ \A p \in PassIds :
        Returns(p) =>
          /\ pass'[p].synced + pass'[p].failed + pass'[p].skipped
               = Len(pass'[p].snap)
          /\ pass'[p].failed = Cardinality(pass'[p].failedIds)
          /\ pass'[p].failedIds \subseteq Ids(queue')
    ]_vars

\* the queue holds an item a pass would submit now
EligibleQueued == \E i \in 1..Len(queue) : shouldRetry(queue[i], now)

\* C23: a trigger dropped because a pass is active is not lost for good: as
\* long as the device stays online and the queue holds an eligible item, a
\* new pass of the hook eventually starts.
C23_DroppedTriggerIsRetried ==
  \A h \in Hooks :
    (hook[h].dropped = "dropped" /\ net = "true" /\ EligibleQueued)
      ~> (hook[h].dropped = "retried" \/ net # "true" \/ ~EligibleQueued)

\* a pass started after a trigger was dropped, on a device that is online,
\* with the item still queued and eligible
C23_Witness ==
  \E h \in Hooks :
    /\ hook[h].dropped = "retried"
    /\ net = "true"
    /\ EligibleQueued
    /\ \E p \in PassIds : pass[p].owner = h /\ pass[p].pc = "read"

\* a pass of hook h starts with this step
HookPassStarts(h) ==
  \E p \in PassIds : pass[p].owner # h /\ pass'[p].owner = h

\* C24: the periodic timer is armed, and a return to the foreground starts a
\* pass, only while the hook knows the device to be online: no trigger of
\* the hook starts a pass while the connectivity the hook has rendered is
\* false or unknown (null).
C24_HookStartsPassesOnlyOnline ==
  [][ \A h \in Hooks : HookPassStarts(h) => conn'.rConnected = "true" ]_vars

\* a hook that has synced before shows no pass and knows the device to be
\* online, and a pass of it has just been started by a trigger that is not
\* syncNow (the timer, a return to the foreground)
C24_Witness ==
  \E h \in Hooks : \E p \in PassIds :
    /\ pass[p].owner = h
    /\ pass[p].pc = "read"
    /\ hook[h].isSyncing
    /\ ~hook[h].rSyncing
    /\ hook[h].syncNowCalls = 0
    /\ hook[h].lastSyncTime # Absent
    /\ conn.rConnected = "true"
    /\ net = "true"

\* C25: on app start with the device online, the app-start trigger requests
\* a pass after the settle delay although connectivity is still unknown
\* (null) when the hook mounts: while the hook has no answer from NetInfo
\* yet and the device is online, the app-start timer is armed.
C25_AppStartTimerArmedWhenOnline ==
  \A h \in Hooks :
    (net = "true" /\ conn.isConnected = "null") => hook[h].startTimer

\* the ids whose attempt the pass has finished
Attempted(ps) == ps.okIds \cup ps.failedIds

\* every item that precedes id in the snapshot has had its attempt, or is
\* one the loop skips
EarlierItemsDone(ps, id, t) ==
  \A j \in 1..(FindIndex(ps.snap, id) - 1) :
    ps.snap[j].id \in Attempted(ps) \/ ~shouldRetry(ps.snap[j], t)

\* C26: within one pass the items are attempted in the order of the
\* snapshot read at the pass's start, one at a time: the snapshot stays as
\* read, an item's attempt begins only when the result of every earlier
\* item has been counted, and an item has its attempt only after all
\* eligible items before it in the snapshot.
C26_PassFollowsSnapshotOrder ==
  [][ \A p \in PassIds :
        /\ (pass[p].pc \notin {"free", "read"} /\ pass'[p].pc # "free") =>
             pass'[p].snap = pass[p].snap
        /\ (pass[p].pc # "create" /\ pass'[p].pc = "create") =>
             pass'[p].synced + pass'[p].failed + pass'[p].skipped
               = pass'[p].idx - 1
        /\ \A id \in Attempted(pass'[p]) \ Attempted(pass[p]) :
             /\ FindIndex(pass[p].snap, id) > 0
             /\ EarlierItemsDone(pass[p], id, now)
    ]_vars

\* the pass has had the first item's attempt and has called createReport for
\* the second
C26_Witness ==
  \E p \in PassIds :
    /\ pass[p].pc = "create"
    /\ pass[p].idx = 2
    /\ pass[p].snap[1].id \in Attempted(pass[p])
    /\ pass[p].snap[2].id \notin Attempted(pass[p])

\* the remote has answered the pass in slot p for id: createReport resolved,
\* or it rejected with a response and the pass is removing the item
Answered(p, id) ==
  \/ id \in pass[p].okIds
  \/ pass[p].pc = "rejWrite" /\ Item(p).id = id

\* C27: a pass removes an item from the queue only after the remote has
\* answered for that item in that pass; an item whose attempt got no answer,
\* or that the pass did not attempt, does not leave the queue in a step of
\* the pass.
C27_PassRemovesOnlyAnsweredItems ==
  [][ \A p \in PassIds :
        pass'[p] # pass[p] =>
          \A id \in Ids(queue) \ Ids(queue') : Answered(p, id)
    ]_vars

\* C28: an item the duplicate clean-up has removed after a successful online
\* submission is not submitted afterwards by a pass, a pass that was in
\* flight with a snapshot containing the item included: no pass calls
\* createReport for an item the clean-up of handleSubmit has just removed.
C28_DedupedItemIsNotSubmitted ==
  [][ \A p \in PassIds :
        (pass[p].pc = "online" /\ pass'[p].pc = "create") =>
          Item(p).id \notin form.deduped
    ]_vars

\* the fields of an item that are fixed when it is enqueued
Fixed(it) ==
  [ id |-> it.id, reportData |-> it.reportData, photos |-> it.photos,
    createdAt |-> it.createdAt ]

\* C29: id, reportData, photos and createdAt of a queue item keep their
\* values from enqueue until removal: whatever a step writes, an item that is
\* in the queue before and after it has the same values in these fields.
C29_EnqueuedFieldsNeverChange ==
  [][ queue' # queue =>
        \A i \in 1..Len(queue) : \A j \in 1..Len(queue') :
          queue[i].id = queue'[j].id => Fixed(queue'[j]) = Fixed(queue[i])
    ]_vars

\* an item with attachments has been through a failed attempt of one pass,
\* while another pass's submission of it succeeded
C29_Witness ==
  \E i \in 1..Len(queue) :
    /\ queue[i].retryCount > 0
    /\ queue[i].lastAttempt # Absent
    /\ queue[i].photos > 0
    /\ queue[i].id \in acked

\* C30: the stored queue never holds two entries with the same id, after
\* any interleaving of addToSyncQueue, updateSyncQueueItem and
\* removeFromSyncQueue.
C30_QueueIdsAreUnique == Cardinality(Ids(queue)) = Len(queue)

\* two items are stored and one of them has been through an update
C30_Witness ==
  /\ Len(queue) = 2
  /\ \E i \in 1..Len(queue) : queue[i].retryCount > 0

\* the item is waiting for its backoff window, as the specification states
\* it: it has retries left and its last attempt is too recent
Waiting(item, t) ==
  /\ item.retryCount < 5
  /\ item.lastAttempt # Absent
  /\ t - item.lastAttempt < schedule(item.retryCount)

\* C31: an item whose retryCount is 5 or more is reported as permanently
\* exhausted, apart from the items that wait for their backoff window: the
\* skipped figure of a pass result counts the waiting items only.
C31_ExhaustedItemsAreNotSkipped ==
  [][ \A p \in PassIds :
        Returns(p) =>
          pass'[p].skipped =
            Cardinality({ i \in 1..Len(pass'[p].snap) :
                            Waiting(pass'[p].snap[i], now) })
    ]_vars

\* createReport answers pass p with success in this step
CreateSucceeds(p) ==
  /\ pass[p].pc = "create"
  /\ pass'[p].pc \in {"photo", "rmRead"}

\* C32: no queue item is successfully submitted to the remote more than
\* once: whenever createReport succeeds for an item, no earlier createReport
\* call for that id has succeeded, in this pass or in any other.
C32_ItemSubmittedAtMostOnce ==
  [][ \A p \in PassIds :
        CreateSucceeds(p) => Item(p).id \notin acked
    ]_vars

\* performSync of hook h settles with this step: the pass it awaited has
\* rejected, or the pending-count refresh after it is done
PerformSyncEnds(h) ==
  \E p \in PassIds :
    /\ pass[p].owner = h
    /\ pass[p].pc \in {"throw", "count"}
    /\ pass'[p].pc = "free"

\* the pass awaited by performSync of hook h resolves with this step
PassResolves(h) ==
  \E p \in PassIds :
    /\ pass[p].owner = h
    /\ pass[p].pc = "return"
    /\ pass'[p].pc = "count"

\* C33: isSyncing never stays true forever while every remote and storage
\* call returns; every performSync ends with isSyncing set back to false,
\* also when its pass throws; and lastSyncTime is set only in the step in
\* which the pass returned without throwing.
C33_IsSyncingIsAlwaysReset ==
  /\ \A h \in Hooks : hook[h].isSyncing ~> ~hook[h].isSyncing
  /\ [][ \A h \in Hooks :
           /\ PerformSyncEnds(h) => ~hook'[h].isSyncing
           /\ hook'[h].lastSyncTime # hook[h].lastSyncTime => PassResolves(h)
       ]_vars

\* the pass of a hook has thrown after a platform failure: performSync is
\* over, isSyncing is false again and lastSyncTime was never set
C33_Witness ==
  \E h \in Hooks :
    /\ faults > 0
    /\ ~hook[h].isSyncing
    /\ hook[h].lastSyncTime = Absent
    /\ \A p \in PassIds : pass[p].pc = "free"

\* the pass in slot p has gone past the item id without attempting it: the
\* loop skipped it as ineligible, or isOnline() was false when it reached it
NotAttempted(p, id) ==
  \/ \E j \in 1..Len(pass[p].snap) :
       /\ j < pass[p].idx
       /\ pass[p].snap[j].id = id
       /\ ~shouldRetry(pass[p].snap[j], now)
  \/ id \in pass[p].offlineIds

\* C34: a pass leaves untouched every item it does not attempt: after any
\* step of the pass, an item it skipped as ineligible or reached while
\* isOnline() was false is still in the queue with the same fields, in the
\* same order with the other items, and the pass calls createReport only for
\* an item that is eligible and reached while online.
C34_PassLeavesUnattemptedItemsAlone ==
  [][ \A p \in PassIds :
        pass'[p] # pass[p] =>
          /\ \A i \in 1..Len(queue) :
               NotAttempted(p, queue[i].id) =>
                 \E j \in 1..Len(queue') : queue'[j] = queue[i]
          /\ SameOrder(queue, queue')
          /\ (pass[p].pc # "create" /\ pass'[p].pc = "create") =>
               /\ Coalesce(net) = "true"
               /\ shouldRetry(Item(p), now)
               /\ Item(p).id \notin pass[p].offlineIds
    ]_vars

\* the read of updateSyncQueueItem by the pass in slot p resolves
UpdateReads(p) == pass[p].pc = "updRead" /\ pass'[p] # pass[p]

\* C35: updateSyncQueueItem for an id that is not in the stored queue writes
\* nothing, and the update a pass makes after a network failure never brings
\* back an item that the duplicate clean-up or another pass has removed: the
\* write of an update adds no id to the stored queue.
C35_UpdateNeverBringsBackAnItem ==
  [][ \A p \in PassIds :
        /\ (UpdateReads(p) /\ Item(p).id \notin Ids(queue)) =>
             /\ pass'[p].pc # "updWrite"
             /\ queue' = queue
        /\ UpdateWrites(p) => Ids(queue') \subseteq Ids(queue)
    ]_vars

\* the pass has read its snapshot and is in its loop or past it
InLoop(ps) == ps.pc \notin {"free", "read"}

\* syncPendingReports has resolved with its result
HasResult(ps) == ps.pc \in {"return", "count"}

\* C36: in every pass result synced + failed + skipped is the number of items
\* of the snapshot read at pass start. Each snapshot item is counted exactly
\* once (the three counts add up to the number of items the loop has gone
\* past) and attempted at most once (the item about to be submitted has had
\* no attempt in this pass), and only snapshot items are attempted or
\* counted, so an item enqueued after the read is not.
C36_ResultCountsTheSnapshot ==
  \A p \in PassIds :
    LET ps == pass[p]
    IN /\ InLoop(ps) => ps.synced + ps.failed + ps.skipped = ps.idx - 1
       /\ HasResult(ps) => ps.synced + ps.failed + ps.skipped = Len(ps.snap)
       /\ ps.pc \in {"online", "create"} =>
            ps.snap[ps.idx].id \notin Attempted(ps)
       /\ Attempted(ps) \subseteq Ids(ps.snap)
       /\ ps.failed = Cardinality(ps.failedIds)
       /\ ps.synced <= Cardinality(ps.okIds)

\* a pass has its result over a snapshot of one item, counted once, while the
\* queue holds an item that was enqueued after the snapshot was read
C36_Witness ==
  \E p \in PassIds :
    /\ HasResult(pass[p])
    /\ Len(pass[p].snap) = 1
    /\ pass[p].synced + pass[p].failed + pass[p].skipped = 1
    /\ \E i \in 1..Len(queue) :
         /\ queue[i].id \notin Ids(pass[p].snap)
         /\ queue[i].id > pass[p].snap[1].id

====
